---- MODULE Spec2Model ----
(***************************************************************************)
(* data-trans: MQTT ingress -> per-device-type JavaScript transformer ->   *)
(* storage fan-out, with hot reload of transformers and database sink.     *)
(*                                                                         *)
(* Tasks of the model:                                                     *)
(*   - message callbacks (mqtt/client.go createMessageHandler), one per    *)
(*     element of Handlers, running concurrently;                          *)
(*   - the configuration watcher callback (main.go watchConfigChanges),    *)
(*     a single task.                                                      *)
(* Lock sections are the atomic steps; everything a handler does outside   *)
(* a lock is interleaved with the other tasks.                             *)
(***************************************************************************)
EXTENDS Integers, Sequences, FiniteSets, TLC

\* ------------------------------------------------------------------ bounds
NumHandlers == 2
MaxMsgs == 2
MaxReloads == 1

Handlers == 1..NumHandlers

\* ------------------------------------------------------------- JS scripts
\* A script is named by its text.  "C", "F", "H" are scripts that define a
\* callable transform; the others fail in newTransformer.
GoodScripts == {"C", "F", "H"}
EvalErrorScript == "bad"        \* vm.RunString returns an error
NoTransformScript == "nofn"     \* vm.Get("transform") == nil
NotCallableScript == "notfn"    \* goja.AssertFunction fails
Unreadable == "unreadable"      \* os.ReadFile error

\* os.ReadFile(path): the content of the script files on disk.
ReadFile(path) ==
    CASE path = "temperature.js" -> "C"
      [] path = "temperature_f.js" -> "F"
      [] path = "humidity.js" -> "H"
      [] OTHER -> Unreadable

\* A config.Transformer value.
Source(code, path) == [ScriptCode |-> code, ScriptPath |-> path]

NoVm == [gen |-> -1, type |-> "none"]
NoEntry == [vm |-> NoVm, script |-> "none"]

\* Whether a script text, once evaluated, exposes a callable `transform`.
HasCallableTransform(script) == script \in GoodScripts

\* newTransformer(scriptCode, scriptPath) for the VM identity vm.
newTransformerSkipCheck(scriptCode, vm) ==
    [err |-> "", tr |-> [vm |-> vm, script |-> scriptCode]]

newTransformer(scriptCode, vm) ==
    IF scriptCode = EvalErrorScript
    THEN [err |-> "eval", tr |-> NoEntry]
    ELSE IF scriptCode = NoTransformScript
    THEN [err |-> "missing", tr |-> NoEntry]
    ELSE IF scriptCode = NotCallableScript
    THEN [err |-> "notcallable", tr |-> NoEntry]
    ELSE [err |-> "", tr |-> [vm |-> vm, script |-> scriptCode]]

\* The script loading shared by NewManager and ReloadTransformer, followed
\* by newTransformer: inline code first, then the file, else an error.
BuildTransformer(cfg, vm) ==
    IF cfg.ScriptCode # ""
    THEN newTransformer(cfg.ScriptCode, vm)
    ELSE IF cfg.ScriptPath # ""
    THEN IF ReadFile(cfg.ScriptPath) = Unreadable
         THEN [err |-> "unreadable", tr |-> NoEntry]
         ELSE newTransformer(ReadFile(cfg.ScriptPath), vm)
    ELSE [err |-> "noscript", tr |-> NoEntry]

\* ------------------------------------------------------------------ topics
\* A topic is the sequence of its '/'-separated segments.
Topics ==
    { <<"devices", "temperature", "t1">>,
      <<"devices", "humidity">>,
      <<"devices", "pressure", "p1">>,
      <<"devices", "">>,
      <<"status">> }

\* The segments that end with the text "devices".
EndsWithDevices(seg) == seg \in {"devices", "mydevices"}

\* The leftmost match of the regular expression devices/([^/]+)/.* in the
\* topic: a segment ending in "devices", a non-empty next segment, and a
\* '/' after it.
RegexMatches(topic) ==
    { i \in 1..Len(topic) :
        /\ EndsWithDevices(topic[i])
        /\ i + 2 <= Len(topic)
        /\ topic[i + 1] # "" }

Min(S) == CHOOSE x \in S : \A y \in S : x <= y

GetDeviceTypeFromTopic(topic) ==
    IF RegexMatches(topic) # {}
    THEN topic[Min(RegexMatches(topic)) + 1]
    ELSE IF Len(topic) >= 2 /\ topic[1] = "devices"
    THEN topic[2]
    ELSE ""

\* ----------------------------------------------------------- configuration
DeviceTypes == {"temperature", "humidity", "pressure"}

NoDb == [Enabled |-> FALSE, Type |-> "", DSN |-> ""]
Db(type, dsn) == [Enabled |-> TRUE, Type |-> type, DSN |-> dsn]

Snap(name, tr, file, db) ==
    [name |-> name, Transformers |-> tr, File |-> file, Database |-> db]

SnapStartA ==
    Snap("startA",
         [t \in {"temperature"} |-> Source("", "temperature.js")],
         TRUE, Db("mysql", "dsn1"))

SnapStartB ==
    Snap("startB",
         [t \in {"temperature", "humidity"} |->
            IF t = "temperature" THEN Source("C", "temperature.js")
                                 ELSE Source("", "humidity.js")],
         FALSE, Db("postgresql", "dsn1"))

SnapFahrenheit ==
    Snap("fahrenheit",
         [t \in {"temperature", "humidity"} |->
            IF t = "temperature" THEN Source("", "temperature_f.js")
                                 ELSE Source("H", "")],
         TRUE, Db("mysql", "dsn2"))

SnapBroken ==
    Snap("broken",
         [t \in {"temperature", "humidity"} |->
            IF t = "temperature" THEN Source(EvalErrorScript, "")
                                 ELSE Source(NoTransformScript, "")],
         TRUE, Db("postgresql", "dsn2"))

SnapMissing ==
    Snap("missing",
         [t \in {"temperature", "humidity"} |->
            IF t = "temperature" THEN Source("", "missing.js")
                                 ELSE Source("", "")],
         TRUE, NoDb)

SnapNotCallable ==
    Snap("notcallable",
         [t \in {"temperature", "humidity"} |->
            IF t = "temperature" THEN Source(NotCallableScript, "")
                                 ELSE Source("", "humidity.js")],
         TRUE, Db("oracle", "dsn1"))

StartSnapshots == {SnapStartA, SnapStartB}
ReloadSnapshots ==
    {SnapStartA, SnapFahrenheit, SnapBroken, SnapMissing, SnapNotCallable}

\* ------------------------------------------------------- script results
\* The value transform() returns, as far as Transform reads it.  `by` names
\* the script that computed it (it stands for the content of the record:
\* the "C" script reports unit C, the "F" script unit F).
Absent == "<absent>"
NonString == "<number>"

Result(kind, by, dt, error) ==
    [kind |-> kind, by |-> by, device_type |-> dt, error |-> error]

NoResult == Result("none", "none", Absent, Absent)

\* What the script `s` can return, over all payloads.
ScriptResults(s) ==
    { Result("throw", s, Absent, Absent),       \* a JS exception
      Result("null", s, Absent, Absent),        \* null or undefined
      Result("scalar", s, Absent, Absent),      \* number, string, boolean
      Result("sequence", s, Absent, Absent),    \* an array
      Result("nan", s, Absent, Absent),         \* a mapping holding NaN
      Result("mapping", s, Absent, Absent),
      Result("mapping", s, "", Absent),
      Result("mapping", s, "custom", Absent),
      Result("mapping", s, NonString, Absent),
      Result("mapping", s, Absent, ""),
      Result("mapping", s, Absent, "boom") }

\* goja.Runtime is not safe for concurrent use: an invocation that overlaps
\* another one in the same VM is a data race on the interpreter state, and
\* may return what the script computes or any other value, computed by no
\* script in particular.  (A crash of
\* the process is the behaviour that stops, which every specification
\* below allows.)
RacedResults(s) == ScriptResults(s) \cup ScriptResults("garbage")

NoRecord == [DeviceType |-> "", by |-> "none"]

\* Transform after the script returned (lines 169-193): Export,
\* json.Marshal, json.Unmarshal into DeviceData, device type fill-in.
TransformFinishNoFill(deviceType, r) ==
    IF r.kind \in {"throw", "nan", "scalar", "sequence"}
       \/ r.device_type = NonString
    THEN [err |-> "failed", rec |-> NoRecord]
    ELSE [err |-> "",
          rec |-> [DeviceType |-> IF r.device_type = Absent THEN ""
                                  ELSE r.device_type,
                   by |-> r.by]]

TransformFinish(deviceType, r) ==
    IF r.kind = "throw"
    THEN [err |-> "invoke", rec |-> NoRecord]
    ELSE IF r.kind = "nan"
    THEN [err |-> "marshal", rec |-> NoRecord]
    ELSE IF r.kind \in {"scalar", "sequence"} \/ r.device_type = NonString
    THEN [err |-> "unmarshal", rec |-> NoRecord]
    ELSE LET dt == IF r.kind = "null" \/ r.device_type = Absent
                   THEN ""
                   ELSE r.device_type
         IN [err |-> "",
             rec |-> [DeviceType |-> IF dt = "" THEN deviceType ELSE dt,
                      by |-> IF r.kind = "null" THEN "none" ELSE r.by]]

\* ------------------------------------------------------------------- sinks
\* A storage backend object.  `boot` says that the constructor's bootstrap
\* (MkdirAll; database creation, Ping, InitDatabase) succeeded; `gen` is
\* the reload that built it (0: startup).
Sink(tag, gen, dsn) == [tag |-> tag, gen |-> gen, dsn |-> dsn, boot |-> TRUE]
NilSink == [tag |-> "nil", gen |-> -1, dsn |-> "", boot |-> FALSE]
SinkId(b) == <<b.tag, b.gen>>
SinkIds(bs) == [i \in 1..Len(bs) |-> SinkId(bs[i])]

NewFileStorage(ok, gen) ==
    IF ok THEN [err |-> "", sink |-> Sink("file", gen, "")]
    ELSE [err |-> "mkdir", sink |-> NilSink]

NewMySQLStorage(dsn, ok, gen) ==
    IF ok THEN [err |-> "", sink |-> Sink("mysql", gen, dsn)]
    ELSE [err |-> "bootstrap", sink |-> NilSink]

NewPostgreSQLStorage(dsn, ok, gen) ==
    IF ok THEN [err |-> "", sink |-> Sink("postgresql", gen, dsn)]
    ELSE [err |-> "bootstrap", sink |-> NilSink]

NewDatabaseStorage(dbType, dsn, ok, gen) ==
    IF dbType = "mysql" THEN NewMySQLStorage(dsn, ok, gen)
    ELSE IF dbType = "postgresql" THEN NewPostgreSQLStorage(dsn, ok, gen)
    ELSE [err |-> "unsupported", sink |-> NilSink]

\* initStorage: the sinks whose constructor returned no error, file first.
initStorageKeepFailed(cfg, fileOk, dbOk) ==
    (IF cfg.File THEN <<NewFileStorage(fileOk, 0).sink>> ELSE <<>>)
    \o (IF cfg.Database.Enabled
        THEN <<NewDatabaseStorage(cfg.Database.Type, cfg.Database.DSN,
                                  dbOk, 0).sink>>
        ELSE <<>>)

initStorage(cfg, fileOk, dbOk) ==
    LET f == NewFileStorage(fileOk, 0)
        d == NewDatabaseStorage(cfg.Database.Type, cfg.Database.DSN, dbOk, 0)
    IN (IF cfg.File /\ f.err = "" THEN <<f.sink>> ELSE <<>>)
       \o (IF cfg.Database.Enabled /\ d.err = "" THEN <<d.sink>> ELSE <<>>)

\* RemoveBackendByType: the sinks kept, and the ones Close is called on.
IsRemoved(b, backendType) ==
    b.tag \in {"mysql", "postgresql", "file"} /\ b.tag = backendType

RemoveKept(bs, backendType) ==
    SelectSeq(bs, LAMBDA b : ~IsRemoved(b, backendType))

RemoveClosedAll(bs, backendType) ==
    { SinkId(bs[i]) : i \in { j \in 1..Len(bs) :
        IsRemoved(bs[j], backendType) } }

RemoveClosed(bs, backendType) ==
    { SinkId(bs[i]) : i \in { j \in 1..Len(bs) :
        IsRemoved(bs[j], backendType) /\ bs[j].tag # "file" } }

\* NewManager: one transformer per configured type, or an error.
NewManager(configs) ==
    LET built == [t \in DOMAIN configs |->
                    BuildTransformer(configs[t], [gen |-> 0, type |-> t])]
    IN IF \E t \in DOMAIN configs : built[t].err # ""
       THEN [err |-> "failed", transformers |-> [t \in DeviceTypes |-> NoEntry]]
       ELSE [err |-> "",
             transformers |-> [t \in DeviceTypes |->
                IF t \in DOMAIN configs THEN built[t].tr ELSE NoEntry]]

\* =================================================================== state
VARIABLES
    transformers,   \* transformer.Manager.transformers: type -> entry
    startTypes,     \* the device types NewManager was given at startup
    built,          \* the device types whose transformer was ever built
    backends,       \* storage.Manager.backends
    closed,         \* ids of the sinks Close was called on
    snapshot,       \* the configuration most recently delivered
    before,         \* what was observable when an equal snapshot arrived
    reloads,        \* number of reload callbacks started
    wpc,            \* the watcher callback's position
    remaining,      \* device types the callback still has to reload
    pendingT,       \* the transformer built, waiting for the write lock
    pendingSink,    \* the sink NewDatabaseStorage returned to the callback
    msgs,           \* messages delivered so far
    hpc,            \* per handler: position in the message callback
    dtype,          \* per handler: the device type taken from the topic
    held,           \* per handler: the entry Transform looked up
    raced,          \* per handler: the invocation overlapped another one
    res,            \* per handler: what the script returned
    calls,          \* per handler: the sink.Store calls of Manager.Store
    nStore,         \* per handler: Manager.Store calls for this message
    outcome,        \* per handler: how the message ended
    now,            \* watcher: time.Now() in seconds
    watching,       \* watcher: viper is watching the configuration file
    lastChangeTime, \* watcher: WatchConfig's lastChangeTime
    lastEvent,      \* watcher: the file event handled last, and how
    deliveries,     \* watcher: the times the reload callback was invoked at
    fileContent,    \* watcher: what the last write left in the configuration file
    fnow,           \* file sink: time.Now(), in ticks
    files,          \* file sink: the files on disk, name -> record written
    acked,          \* file sink: the records whose Store returned nil
    nrec,           \* file sink: number of Store calls so far
    qpc,            \* SQL sink: position in Store
    qin,            \* SQL sink: the dialect and the record of the call
    qattr,          \* SQL sink: attributes handled by the loop so far
    qerr,           \* SQL sink: Store's variable err, read by the defer
    qret,           \* SQL sink: the value Store returns
    tx,             \* SQL sink: the transaction of the call
    txrows,         \* SQL sink: rows inserted in the transaction
    rows,           \* SQL sink: rows the call made persistent
    mainpc,         \* main: its position from the exit signal on
    closeLog,       \* main: the sinks Manager.Close called Close on
    sinkOp,         \* storage manager: the operation a caller ran last
    gtopic,         \* topic call: the topic handed to the message callback
    gtype,          \* topic call: what GetDeviceTypeFromTopic returned
    gend,           \* topic call: how the callback went on
    jsResult,       \* canonicalization: the mapping the script returned
    forType,        \* canonicalization: the device type Transform was called with
    deviceData,     \* canonicalization: what Transform returned for it
    lop,            \* locks: the operation the writing goroutine is in
    ltag,           \* locks: the type the operation was called with
    lat,            \* locks: the writer's position in the operation
    lidx,           \* locks: the loop index over m.backends
    lnew,           \* locks: newBackends of RemoveBackendByType
    lsink,          \* locks: the sink NewDatabaseStorage returned
    lheld,          \* locks: the write lock the writer holds
    lrd,            \* locks: per handler, where it is with the read locks
    lcount,         \* locks: operations begun so far
    jpayload,       \* script: the payload transform was called with
    jconsole,       \* script: whether the runtime defines the global console
    jresult,        \* script: what transform returned or threw
    maxSize,        \* logger: Logger.maxSize, in bytes
    maxBackups,     \* logger: Logger.maxBackups
    currentSize,    \* logger: Logger.currentSize
    logClock,       \* logger: time.Now(), in seconds
    backupFiles,    \* logger: the rotated files in the log directory
    rotations,      \* logger: number of rotate calls so far
    overwritten,    \* logger: backups a later rename replaced
    lastWrite,      \* logger: the last call of log, and what it did
    logConsole,     \* logger: LoggerConfig.Console as New was given it
    output          \* logger: the kind of writer Logger.output is

wvars == <<snapshot, before, reloads, wpc, remaining, pendingT, pendingSink>>
svars == <<backends, closed>>
hvars == <<msgs, hpc, dtype, held, raced, res, calls, nStore, outcome>>
rvars == <<transformers, startTypes, built>>
tvars == <<now, watching, lastChangeTime, lastEvent, deliveries, fileContent>>
fvars == <<fnow, files, acked, nrec>>
pvars == <<rvars, wvars, svars, hvars>>
qvars == <<qpc, qin, qattr, qerr, qret, tx, txrows, rows>>
mvars == <<mainpc, closeLog>>
bvars == <<sinkOp>>
gvars == <<gtopic, gtype, gend>>
cvars == <<jsResult, forType, deviceData>>
lvars == <<lop, ltag, lat, lidx, lnew, lsink, lheld, lrd, lcount>>
jvars == <<jpayload, jconsole, jresult>>
ovars == <<maxSize, maxBackups, currentSize, logClock, backupFiles, rotations, overwritten, lastWrite,
          logConsole, output>>
xvars == <<tvars, fvars, qvars, mvars, bvars, gvars, cvars, lvars, jvars, ovars>>
exceptT == <<fvars, qvars, mvars, bvars, gvars, cvars, lvars, jvars, ovars>>
exceptF == <<pvars, tvars, qvars, mvars, bvars, gvars, cvars, lvars, jvars, ovars>>
exceptQ == <<pvars, tvars, fvars, mvars, bvars, gvars, cvars, lvars, jvars, ovars>>
exceptM == <<tvars, fvars, qvars, bvars, gvars, cvars, lvars, jvars, ovars>>
exceptB == <<tvars, fvars, qvars, mvars, gvars, cvars, lvars, jvars, ovars>>
exceptG == <<pvars, tvars, fvars, qvars, mvars, bvars, cvars, lvars, jvars, ovars>>
exceptC == <<pvars, tvars, fvars, qvars, mvars, bvars, gvars, lvars, jvars, ovars>>
exceptL == <<tvars, fvars, qvars, mvars, bvars, gvars, cvars, jvars, ovars>>
exceptJ == <<pvars, tvars, fvars, qvars, mvars, bvars, gvars, cvars, lvars, ovars>>
exceptO == <<pvars, tvars, fvars, qvars, mvars, bvars, gvars, cvars, lvars, jvars>>
vars == <<pvars, xvars>>

NoPending == [type |-> "none", tr |-> NoEntry]

\* The handlers inside Manager.Store hold the storage manager's read lock.
StoreReaders == { h \in Handlers : hpc[h] = "storing" }

\* The state after main's initialisation: NewManager succeeded (else the
\* process exits), initStorage built the sink set.
\* The configuration watcher before the first file event.  The zero
\* time.Time of lastChangeTime is `Never`.
Never == -1
NoEvent ==
    [seq |-> 0, op |-> {}, at |-> 0, parses |-> FALSE, result |-> "none",
     prev |-> "none"]

\* No write event has reached the watcher yet.
Unwritten == Snap("unwritten", [t \in {} |-> Source("", "")], FALSE, NoDb)

WatcherStarted ==
    /\ fileContent = Unwritten
    /\ now = 0
    /\ watching = TRUE
    /\ lastChangeTime = Never
    /\ lastEvent = NoEvent
    /\ deliveries = <<>>

\* What a message observes of the registry and of the sink set: the script
\* registered for each device type, and the types of the sinks in order.
Scripts(reg) == [t \in DeviceTypes |-> reg[t].script]
SinkTags(bs) == [i \in 1..Len(bs) |-> bs[i].tag]
NoBefore == [same |-> FALSE, scripts |-> Scripts([t \in DeviceTypes |-> NoEntry]),
             sinks |-> <<>>]

PipelineStarted(s, fileOk, dbOk) ==
    /\ NewManager(s.Transformers).err = ""
    /\ transformers = NewManager(s.Transformers).transformers
    /\ startTypes = DOMAIN s.Transformers
    /\ built = DOMAIN s.Transformers
    /\ backends = initStorage(s, fileOk, dbOk)
    /\ snapshot = s
    /\ closed = {}
    /\ before = NoBefore
    /\ reloads = 0
    /\ wpc = "idle"
    /\ remaining = {}
    /\ pendingT = NoPending
    /\ pendingSink = NilSink
    /\ msgs = 0
    /\ hpc = [h \in Handlers |-> "idle"]
    /\ dtype = [h \in Handlers |-> ""]
    /\ held = [h \in Handlers |-> NoEntry]
    /\ raced = [h \in Handlers |-> FALSE]
    /\ res = [h \in Handlers |-> NoResult]
    /\ calls = [h \in Handlers |-> <<>>]
    /\ nStore = [h \in Handlers |-> 0]
    /\ outcome = [h \in Handlers |-> "none"]

\* The file sink's directory before the first Store.
FileSinkEmpty ==
    /\ fnow = 0
    /\ files = {}
    /\ acked = {}
    /\ nrec = 0

\* An SQL sink no Store call is running on.
NoCall == [dialect |-> "none", nattrs |-> 0]

SqlIdle ==
    /\ qpc = "idle"
    /\ qin = NoCall
    /\ qattr = 0
    /\ qerr = ""
    /\ qret = "none"
    /\ tx = "none"
    /\ txrows = {}
    /\ rows = {}

\* main waiting for the exit signal.
MainRunning ==
    /\ mainpc = "running"
    /\ closeLog = <<>>

\* No operation of the storage manager was run directly yet.
NoSinkOp == [op |-> "none", arg |-> "none", removed |-> 0]

ManagerUntouched == sinkOp = NoSinkOp

\* No topic has been handed to the callback.
NotCalled == "notcalled"
TopicIdle == gtopic = <<>> /\ gtype = NotCalled /\ gend = NotCalled

\* Transform has not been called on a mapping of its own.
NoMapping ==
    [device_name |-> NotCalled,
     timestamp |-> [kind |-> NotCalled, whole |-> 0, frac |-> FALSE],
     device_type |-> NotCalled]
NoReturn ==
    [err |-> NotCalled,
     rec |-> [DeviceName |-> "", DeviceType |-> "", Timestamp |-> 0]]
CanonIdle == jsResult = NoMapping /\ forType = NotCalled /\ deviceData = NoReturn

\* No writer is at work and no reader holds or awaits a lock.
LocksIdle ==
    /\ lop = "none"
    /\ ltag = ""
    /\ lat = "none"
    /\ lidx = 0
    /\ lnew = <<>>
    /\ lsink = NilSink
    /\ lheld = "none"
    /\ lrd = [h \in Handlers |-> "idle"]
    /\ lcount = 0

\* The absent value of a numeric key (a humidity is never negative).
Undefined == -1

Payload(format, hum, humidity, id, name) ==
    [format |-> format, hum |-> hum, humidity |-> humidity, id |-> id,
     device_name |-> name]

ScriptOut(kind, branch, name, humidity, error) ==
    [kind |-> kind, branch |-> branch, device_name |-> name,
     humidity |-> humidity, error |-> error]

\* The humidity script has not been called on its own.
NoPayload == Payload(NotCalled, Undefined, Undefined, Absent, Absent)
NoScriptOut == ScriptOut(NotCalled, "", Absent, Undefined, Absent)
ScriptIdle ==
    jpayload = NoPayload /\ jconsole = FALSE /\ jresult = NoScriptOut

\* logger.New has not been called.
NoWrite == [total |-> -1, rotated |-> FALSE, to |-> {}]
LoggerAbsent ==
    /\ maxSize = -1
    /\ maxBackups = -1
    /\ currentSize = 0
    /\ logClock = 0
    /\ backupFiles = {}
    /\ rotations = 0
    /\ overwritten = {}
    /\ lastWrite = NoWrite
    /\ logConsole = FALSE
    /\ output = "nil"

Init ==
    /\ WatcherStarted
    /\ FileSinkEmpty
    /\ SqlIdle
    /\ MainRunning
    /\ ManagerUntouched
    /\ TopicIdle
    /\ CanonIdle
    /\ LocksIdle
    /\ ScriptIdle
    /\ LoggerAbsent
    /\ \E s \in StartSnapshots, fileOk \in BOOLEAN, dbOk \in BOOLEAN :
          PipelineStarted(s, fileOk, dbOk)

\* ======================================================= message callback
\* A local variable of the callback is kept in the state for as long as
\* the callback reads it, and cleared afterwards.

\* Transform, lines 159-165: the lookup under the read lock.
Lookup(reg, deviceType) ==
    IF deviceType \in DOMAIN reg THEN reg[deviceType] ELSE NoEntry

\* createMessageHandler: where the callback goes once the topic's device
\* type is known and the registry entry `e` was looked up, and where it
\* goes after Transform returned.
AfterLookup(deviceType, e) ==
    IF deviceType = "" THEN "notype"
    ELSE IF e = NoEntry THEN "notransformer"
    ELSE "invoke"

AfterTransformAlwaysStore(err) == "store"

AfterTransform(err) == IF err # "" THEN "transformerr" ELSE "store"

\* A message arrives on handler h (lines 75-86, and Transform's lookup,
\* the callback's first access to shared state): a message without device
\* type, or of a type without transformer, fails here.
Receive(h, tp) ==
    /\ hpc[h] = "idle"
    /\ msgs < MaxMsgs
    /\ msgs' = msgs + 1
    /\ dtype' = [dtype EXCEPT ![h] = GetDeviceTypeFromTopic(tp)]
    /\ LET dt == GetDeviceTypeFromTopic(tp)
           e == Lookup(transformers, dt)
           to == AfterLookup(dt, e)
       IN /\ hpc' = [hpc EXCEPT ![h] = IF to = "invoke" THEN to ELSE "failed"]
          /\ outcome' = [outcome EXCEPT ![h] =
                IF to = "invoke" THEN "none" ELSE to]
          /\ held' = [held EXCEPT ![h] = IF to = "invoke" THEN e ELSE NoEntry]
    /\ UNCHANGED <<rvars, wvars, svars, raced, res, calls, nStore>>
    /\ UNCHANGED xvars

\* The handlers executing inside the VM `vm`.
InVM(vm) == { g \in Handlers : hpc[g] = "inVM" /\ held[g].vm = vm }

\* Transform, line 168: the call of transformer.transform begins.  No lock
\* is held; handlers already inside the same VM now race with this one.
InvokeEnter(h) ==
    /\ hpc[h] = "invoke"
    /\ hpc' = [hpc EXCEPT ![h] = "inVM"]
    /\ raced' = [g \in Handlers |->
          IF g = h THEN InVM(held[h].vm) # {}
          ELSE IF g \in InVM(held[h].vm) THEN TRUE
          ELSE raced[g]]
    /\ UNCHANGED <<rvars, wvars, svars, msgs, dtype, held, res,
                   calls, nStore, outcome>>
    /\ UNCHANGED xvars

\* Transform, lines 168-193: the script returns and its value is turned
\* into a DeviceData; the callback gives up on an error.
InvokeReturn(h) ==
    /\ hpc[h] = "inVM"
    /\ \E r \in (IF raced[h] THEN RacedResults(held[h].script)
                 ELSE ScriptResults(held[h].script)) :
         LET to == AfterTransform(TransformFinish(dtype[h], r).err)
         IN /\ res' = [res EXCEPT ![h] = IF to = "store" THEN r ELSE NoResult]
            /\ hpc' = [hpc EXCEPT ![h] = IF to = "store" THEN to ELSE "failed"]
            /\ outcome' = [outcome EXCEPT ![h] =
                  IF to = "store" THEN "none" ELSE to]
    /\ held' = [held EXCEPT ![h] = NoEntry]
    /\ raced' = [raced EXCEPT ![h] = FALSE]
    /\ UNCHANGED <<rvars, wvars, svars, msgs, dtype, calls, nStore>>
    /\ UNCHANGED xvars

\* The DeviceData the callback passes to Manager.Store.
Record(h) == TransformFinish(dtype[h], res[h]).rec

\* Manager.Store(deviceType, result): RLock.
StoreBegin(h) ==
    /\ hpc[h] = "store"
    /\ hpc' = [hpc EXCEPT ![h] = "storing"]
    /\ nStore' = [nStore EXCEPT ![h] = @ + 1]
    /\ res' = [res EXCEPT ![h] = NoResult]
    /\ dtype' = [dtype EXCEPT ![h] = ""]
    /\ UNCHANGED <<rvars, wvars, svars, msgs, held, raced, calls,
                   outcome>>
    /\ UNCHANGED xvars

\* Manager.Store: whether the loop over m.backends has ended.
StoreLoopDoneOnError(cs, bs) ==
    Len(cs) >= Len(bs) \/ (Len(cs) > 0 /\ cs[Len(cs)].err # "")

StoreLoopDone(cs, bs) == Len(cs) >= Len(bs)

\* Manager.Store: one backend.Store call; its error is logged.
StoreSink(h) ==
    /\ hpc[h] = "storing"
    /\ ~StoreLoopDone(calls[h], backends)
    /\ \E err \in {"", "ioerr"} :
          calls' = [calls EXCEPT ![h] =
              Append(@, [sink |-> SinkId(backends[Len(@) + 1]),
                         boot |-> backends[Len(@) + 1].boot,
                         err |-> err])]
    /\ UNCHANGED <<rvars, wvars, svars, msgs, hpc, dtype, held,
                   raced, res, nStore, outcome>>
    /\ UNCHANGED xvars

\* Manager.Store: the value returned.
ManagerStoreReturn(cs) == "nil"

\* Manager.Store: RUnlock and return.
StoreEnd(h) ==
    /\ hpc[h] = "storing"
    /\ StoreLoopDone(calls[h], backends)
    /\ outcome' = [outcome EXCEPT ![h] =
          IF ManagerStoreReturn(calls[h]) = "nil" THEN "stored"
          ELSE "storeerr"]
    /\ hpc' = [hpc EXCEPT ![h] = "done"]
    /\ calls' = [calls EXCEPT ![h] = <<>>]
    /\ UNCHANGED <<rvars, wvars, svars, msgs, dtype, held, raced,
                   res, nStore>>
    /\ UNCHANGED xvars

\* The callback logs how the message ended and returns; there is no retry.
Return(h) ==
    /\ hpc[h] \in {"failed", "done"}
    /\ hpc' = [hpc EXCEPT ![h] = "idle"]
    /\ dtype' = [dtype EXCEPT ![h] = ""]
    /\ nStore' = [nStore EXCEPT ![h] = 0]
    /\ outcome' = [outcome EXCEPT ![h] = "none"]
    /\ UNCHANGED <<rvars, wvars, svars, msgs, held, raced, res, calls>>
    /\ UNCHANGED xvars

\* ========================================================= reload callback
\* config.WatchConfig delivers a new snapshot to the callback of
\* watchConfigChanges, which reloads every transformer of the snapshot and
\* then the database sink.
Deliver(s) ==
    /\ snapshot' = s
    /\ before' = IF s = snapshot
                 THEN [same |-> TRUE, scripts |-> Scripts(transformers),
                       sinks |-> SinkTags(backends)]
                 ELSE NoBefore
    /\ reloads' = reloads + 1
    /\ remaining' = DOMAIN s.Transformers
    /\ wpc' = "transformers"
    /\ UNCHANGED <<rvars, svars, hvars, pendingT, pendingSink>>

ConfigChange(s) ==
    /\ wpc = "idle"
    /\ reloads < MaxReloads
    /\ Deliver(s)
    /\ UNCHANGED xvars

\* ReloadTransformer returned an error: the registry afterwards, and the
\* device types the callback's loop goes on with.
RegistryAfterFailedReloadDrop(reg, t) == [reg EXCEPT ![t] = NoEntry]

RegistryAfterFailedReload(reg, t) == reg

LoopAfterFailedReloadAbort(rem, t) == {}

LoopAfterFailedReload(rem, t) == rem \ {t}

\* ReloadTransformer, lines 198-219: load the script and build the new
\* transformer, outside the lock.  The loop of the callback takes the
\* types in any order (Go map iteration).
ReloadBuild(t) ==
    /\ wpc = "transformers"
    /\ t \in remaining
    /\ LET b == BuildTransformer(snapshot.Transformers[t],
                                 [gen |-> reloads, type |-> t])
       IN IF b.err # ""
          THEN /\ transformers' = RegistryAfterFailedReload(transformers, t)
               /\ remaining' = LoopAfterFailedReload(remaining, t)
               /\ UNCHANGED <<wpc, pendingT>>
          ELSE /\ pendingT' = [type |-> t, tr |-> b.tr]
               /\ wpc' = "swap"
               /\ UNCHANGED <<transformers, remaining>>
    /\ UNCHANGED <<startTypes, built, snapshot, before, reloads, pendingSink, svars,
                   hvars>>
    /\ UNCHANGED xvars

SwapKeepsOld(reg, t, tr) == reg

\* ReloadTransformer, lines 222-224: the swap under the write lock.
Swap(reg, t, tr) == [reg EXCEPT ![t] = tr]

ReloadSwap ==
    /\ wpc = "swap"
    /\ transformers' = Swap(transformers, pendingT.type, pendingT.tr)
    /\ built' = built \cup {pendingT.type}
    /\ remaining' = remaining \ {pendingT.type}
    /\ pendingT' = NoPending
    /\ wpc' = "transformers"
    /\ UNCHANGED <<startTypes, snapshot, before, reloads, pendingSink, svars,
                   hvars>>
    /\ UNCHANGED xvars

\* The callback with database storage disabled ends after the transformers.
ReloadNoDatabase ==
    /\ wpc = "transformers"
    /\ remaining = {}
    /\ ~snapshot.Database.Enabled
    /\ wpc' = "idle"
    /\ UNCHANGED <<rvars, snapshot, before, reloads, remaining, pendingT,
                   pendingSink, svars, hvars>>
    /\ UNCHANGED xvars

\* RemoveBackendByType(newCfg.Storage.Database.Type), under the write lock:
\* it waits for the Manager.Store calls in progress.
DbRemove ==
    /\ wpc = "transformers"
    /\ remaining = {}
    /\ snapshot.Database.Enabled
    /\ StoreReaders = {}
    /\ backends' = RemoveKept(backends, snapshot.Database.Type)
    /\ closed' = closed \cup RemoveClosed(backends, snapshot.Database.Type)
    /\ wpc' = "dbNew"
    /\ UNCHANGED <<rvars, snapshot, before, reloads, remaining, pendingT,
                   pendingSink, hvars>>
    /\ UNCHANGED xvars

\* watchConfigChanges, lines 104-111: whether the callback adds the sink
\* NewDatabaseStorage returned.
AddsSink(r) == r.err = ""

\* NewDatabaseStorage for the new configuration; its bootstrap may fail.
DbNew ==
    /\ wpc = "dbNew"
    /\ \E ok \in BOOLEAN :
         LET r == NewDatabaseStorage(snapshot.Database.Type,
                                     snapshot.Database.DSN, ok, reloads)
         IN IF AddsSink(r)
            THEN /\ pendingSink' = r.sink
                 /\ wpc' = "dbAdd"
            ELSE /\ wpc' = "idle"
                 /\ pendingSink' = pendingSink
    /\ UNCHANGED <<rvars, snapshot, before, reloads, remaining, pendingT,
                   svars, hvars>>
    /\ UNCHANGED xvars

\* AddBackend, under the write lock.
AddBackend(bs, sink) == Append(bs, sink)

DbAdd ==
    /\ wpc = "dbAdd"
    /\ StoreReaders = {}
    /\ backends' = AddBackend(backends, pendingSink)
    /\ pendingSink' = NilSink
    /\ wpc' = "idle"
    /\ UNCHANGED <<rvars, snapshot, before, reloads, remaining, pendingT,
                   closed, hvars>>
    /\ UNCHANGED xvars

\* =========================================================== specification
Next ==
    \/ \E h \in Handlers, tp \in Topics : Receive(h, tp)
    \/ \E h \in Handlers : InvokeEnter(h)
    \/ \E h \in Handlers : InvokeReturn(h)
    \/ \E h \in Handlers : StoreBegin(h)
    \/ \E h \in Handlers : StoreSink(h)
    \/ \E h \in Handlers : StoreEnd(h)
    \/ \E h \in Handlers : Return(h)
    \/ \E s \in ReloadSnapshots : ConfigChange(s)
    \/ \E t \in DeviceTypes : ReloadBuild(t)
    \/ ReloadSwap
    \/ ReloadNoDatabase
    \/ DbRemove
    \/ DbNew
    \/ DbAdd

Spec == Init /\ [][Next]_vars

\* ================================================= configuration watcher
\* config.WatchConfig: viper calls the OnConfigChange function for every
\* event of the configuration file, one event at a time; the function
\* debounces, parses the content and invokes the reload callback, which
\* here is the callback of watchConfigChanges.
MaxTime == 5
MaxEvents == 3
DebounceInterval == 2

\* The fsnotify.Op of an event: a set of operation bits.
EventOps == { {"Write"}, {"Create"}, {"Write", "Chmod"}, {"Remove"} }
IsWrite(op) == "Write" \in op

\* The content of the configuration file at an event: a snapshot, or a
\* text viper.Unmarshal fails on.
Unparsable == Snap("unparsable", [t \in {} |-> Source("", "")], FALSE, NoDb)
WatchContents == {SnapStartA, SnapFahrenheit, SnapMissing}

\* now.Sub(lastChangeTime) < debounceInterval
DebouncedNever(last, t) == FALSE

Debounced(last, t) == last # Never /\ t - last < DebounceInterval

\* Whether the watcher goes on after an event was handled.
WatchingAfterStopOnError(result) == result \notin {"parsefail", "callbackerr"}

WatchingAfter(result) == TRUE

\* What the function does with an event (lines 82-110).  The callback's
\* return value only selects the line logged; WatchConfig accepts any
\* callback, so both values are considered.
EventResult(op, content, cbErr) ==
    IF ~IsWrite(op) THEN "notwrite"
    ELSE IF Debounced(lastChangeTime, now) THEN "debounced"
    ELSE IF content = Unparsable THEN "parsefail"
    ELSE IF cbErr THEN "callbackerr"
    ELSE "applied"

Delivered(result) == result \in {"applied", "callbackerr"}

\* One file event.  The next event is handled when the function has
\* returned, that is, when the callback it invoked has ended.
FileEvent(op, content, cbErr) ==
    /\ watching
    /\ wpc = "idle"
    /\ lastEvent.seq < MaxEvents
    /\ LET result == EventResult(op, content, cbErr)
       IN /\ lastEvent' = [seq |-> lastEvent.seq + 1, op |-> op, at |-> now,
                           parses |-> content # Unparsable, result |-> result,
                           prev |-> lastEvent.result]
          /\ lastChangeTime' = IF result \in {"notwrite", "debounced"}
                               THEN lastChangeTime ELSE now
          /\ deliveries' = IF Delivered(result) THEN Append(deliveries, now)
                           ELSE deliveries
          /\ watching' = WatchingAfter(result)
          /\ fileContent' = IF IsWrite(op) THEN content ELSE fileContent
          /\ IF Delivered(result) THEN Deliver(content)
             ELSE UNCHANGED <<rvars, wvars, svars, hvars>>
    /\ UNCHANGED <<now, exceptT>>

\* Time passes.
Tick ==
    /\ now < MaxTime
    /\ now' = now + 1
    /\ UNCHANGED <<rvars, wvars, svars, hvars, watching, lastChangeTime,
                   lastEvent, deliveries, fileContent, exceptT>>

InitWatch ==
    /\ WatcherStarted
    /\ FileSinkEmpty
    /\ SqlIdle
    /\ MainRunning
    /\ ManagerUntouched
    /\ TopicIdle
    /\ CanonIdle
    /\ LocksIdle
    /\ ScriptIdle
    /\ LoggerAbsent
    /\ PipelineStarted(SnapStartA, TRUE, TRUE)

NextWatch ==
    \/ \E op \in EventOps, c \in WatchContents \cup {Unparsable},
          cbErr \in BOOLEAN : FileEvent(op, c, cbErr)
    \/ Tick
    \/ \E t \in DeviceTypes : ReloadBuild(t)
    \/ ReloadSwap
    \/ ReloadNoDatabase
    \/ DbRemove
    \/ DbNew
    \/ DbAdd

SpecWatch == InitWatch /\ [][NextWatch]_vars

\* What goes on without a further file event: time passes, and the reload
\* callback that was invoked runs to its end.
WatcherProgress ==
    \/ Tick
    \/ \E t \in DeviceTypes : ReloadBuild(t)
    \/ ReloadSwap
    \/ ReloadNoDatabase
    \/ DbRemove
    \/ DbNew
    \/ DbAdd

SpecWatchLive == SpecWatch /\ WF_vars(WatcherProgress)

\* =============================================================== file sink
\* FileStorage.Store writes the record to <basePath>/<deviceType>/<time>.json
\* where <time> is time.Now() formatted to the millisecond.
MaxFileTime == 3
MaxRecords == 3
TicksPerMs == 2

\* time.Now().Format("20060102-150405.000"): the time cut to milliseconds.
Format(t) == t \div TicksPerMs

FileName(deviceType, t) == <<deviceType, Format(t)>>

\* os.WriteFile creates the file or truncates the one that exists.
WriteFile(fs, name, rec) ==
    { f \in fs : f.name # name } \cup {[name |-> name, rec |-> rec]}

\* One FileStorage.Store call; MkdirAll or WriteFile may fail, and then
\* the call returns the error.
FileStore(deviceType, err) ==
    /\ nrec < MaxRecords
    /\ nrec' = nrec + 1
    /\ IF err # ""
       THEN UNCHANGED <<files, acked>>
       ELSE /\ files' = WriteFile(files, FileName(deviceType, fnow), nrec + 1)
            /\ acked' = acked \cup {nrec + 1}
    /\ UNCHANGED <<fnow, exceptF>>

FileTick ==
    /\ fnow < MaxFileTime
    /\ fnow' = fnow + 1
    /\ UNCHANGED <<files, acked, nrec, exceptF>>

InitFile ==
    /\ WatcherStarted
    /\ FileSinkEmpty
    /\ SqlIdle
    /\ MainRunning
    /\ ManagerUntouched
    /\ TopicIdle
    /\ CanonIdle
    /\ LocksIdle
    /\ ScriptIdle
    /\ LoggerAbsent
    /\ PipelineStarted(SnapStartA, TRUE, TRUE)

NextFile ==
    \/ \E dt \in {"temperature", "humidity"}, err \in {"", "mkdir", "write"} :
          FileStore(dt, err)
    \/ FileTick

SpecFile == InitFile /\ [][NextFile]_vars

\* =============================================================== SQL sinks
\* MySQLStorage.Store and PostgreSQLStorage.Store: one transaction, with a
\* deferred function that rolls back when Store's variable err is not nil.
MaxAttrs == 2

Dialects == {"mysql", "postgresql"}

\* The statements of Store that can fail, in order.  MySQL reads the row id
\* with LastInsertId; PostgreSQL gets it from the insert (RETURNING id).
SqlSteps ==
    {"begin", "marshalMeta", "insertDevice", "lastId", "marshalAttr",
     "insertAttrs", "commit"}

AfterAttrsOrCommit(nattrs) == IF nattrs > 0 THEN "marshalAttr" ELSE "commit"

NextStep(dialect, step, nattrs, done) ==
    CASE step = "begin" -> "marshalMeta"
      [] step = "marshalMeta" -> "insertDevice"
      [] step = "insertDevice" ->
            IF dialect = "mysql" THEN "lastId" ELSE AfterAttrsOrCommit(nattrs)
      [] step = "lastId" -> AfterAttrsOrCommit(nattrs)
      [] step = "marshalAttr" ->
            IF done + 1 < nattrs THEN "marshalAttr" ELSE "insertAttrs"
      [] step = "insertAttrs" -> "commit"
      [] step = "commit" -> "deferred"

\* Whether the error of a failed statement is assigned to the variable err
\* of Store's outermost scope, the one the deferred function reads.  The
\* `attrMetadataJSON, err := json.Marshal(...)` of the attribute loop
\* declares a new err in the loop body.
AssignsOuterErr(step) == step # "marshalAttr"

AttrRows(nattrs) == { <<"attr", i>> : i \in 1..nattrs }

\* Store is called.
SqlCall(dialect, nattrs) ==
    /\ qpc = "idle"
    /\ qpc' = "begin"
    /\ qin' = [dialect |-> dialect, nattrs |-> nattrs]
    /\ qattr' = 0
    /\ qerr' = ""
    /\ qret' = "none"
    /\ tx' = "none"
    /\ txrows' = {}
    /\ rows' = {}
    /\ UNCHANGED exceptQ

\* One statement of Store succeeds.
SqlStepOk ==
    /\ qpc \in SqlSteps
    /\ qpc' = NextStep(qin.dialect, qpc, qin.nattrs, qattr)
    /\ qattr' = IF qpc = "marshalAttr" THEN qattr + 1 ELSE qattr
    /\ tx' = CASE qpc = "begin" -> "open"
               [] qpc = "commit" -> "committed"
               [] OTHER -> tx
    /\ txrows' = CASE qpc = "insertDevice" -> txrows \cup {<<"device", 0>>}
                   [] qpc = "insertAttrs" -> txrows \cup AttrRows(qin.nattrs)
                   [] OTHER -> txrows
    /\ rows' = IF qpc = "commit" THEN txrows ELSE rows
    /\ qret' = IF qpc = "commit" THEN "nil" ELSE qret
    /\ UNCHANGED <<qin, qerr, exceptQ>>

\* One statement of Store fails and Store returns the error.  The deferred
\* function exists once Begin has succeeded; a failed Commit ends the
\* transaction without making anything persistent.
SqlStepFail ==
    /\ qpc \in SqlSteps
    /\ qret' = qpc
    /\ qerr' = IF AssignsOuterErr(qpc) THEN qpc ELSE qerr
    /\ qpc' = IF qpc = "begin" THEN "returned" ELSE "deferred"
    /\ tx' = IF qpc = "commit" THEN "aborted" ELSE tx
    /\ UNCHANGED <<qin, qattr, txrows, rows, exceptQ>>

\* The deferred function: Rollback when err is not nil.
SqlDeferred ==
    /\ qpc = "deferred"
    /\ qpc' = "returned"
    /\ IF qerr # ""
       THEN /\ tx' = IF tx = "open" THEN "rolledback" ELSE tx
            /\ txrows' = {}
       ELSE UNCHANGED <<tx, txrows>>
    /\ UNCHANGED <<qin, qattr, qerr, qret, rows, exceptQ>>

\* The caller has the returned value.
SqlReturn ==
    /\ qpc = "returned"
    /\ qpc' = "idle"
    /\ UNCHANGED <<qin, qattr, qerr, qret, tx, txrows, rows, exceptQ>>

InitSql ==
    /\ WatcherStarted
    /\ FileSinkEmpty
    /\ SqlIdle
    /\ MainRunning
    /\ ManagerUntouched
    /\ TopicIdle
    /\ CanonIdle
    /\ LocksIdle
    /\ ScriptIdle
    /\ LoggerAbsent
    /\ PipelineStarted(SnapStartA, TRUE, TRUE)

NextSql ==
    \/ \E d \in Dialects, n \in 0..MaxAttrs : SqlCall(d, n)
    \/ SqlStepOk
    \/ SqlStepFail
    \/ SqlDeferred
    \/ SqlReturn

SpecSql == InitSql /\ [][NextSql]_vars

\* ================================================================ shutdown
\* main from the exit signal on (lines 188-193): mqttManager.Stop(), then
\* the deferred storageManager.Close(), then main returns and the process
\* ends with every task that is still running.
Signal ==
    /\ mainpc = "running"
    /\ mainpc' = "signalled"
    /\ UNCHANGED <<closeLog, pvars, exceptM>>

\* mqttManager.Stop(): client.Disconnect(250).  No callback is delivered
\* afterwards; the callbacks that are running go on.
Disconnect ==
    /\ mainpc = "signalled"
    /\ mainpc' = "disconnected"
    /\ UNCHANGED <<closeLog, pvars, exceptM>>

\* Manager.Close, under the write lock: it waits for the Manager.Store
\* calls in progress, then calls Close on every backend.
ManagerClose ==
    /\ mainpc = "disconnected"
    /\ StoreReaders = {}
    /\ closeLog' = SinkIds(backends)
    /\ closed' = closed \cup { SinkId(backends[i]) : i \in 1..Len(backends) }
    /\ mainpc' = "closed"
    /\ UNCHANGED <<backends, rvars, wvars, hvars, exceptM>>

\* main returns.
Exit ==
    /\ mainpc = "closed"
    /\ mainpc' = "exited"
    /\ UNCHANGED <<closeLog, pvars, exceptM>>

Connected == mainpc \in {"running", "signalled"}
ProcessAlive == mainpc # "exited"

InitShutdown ==
    /\ WatcherStarted
    /\ FileSinkEmpty
    /\ SqlIdle
    /\ MainRunning
    /\ ManagerUntouched
    /\ TopicIdle
    /\ CanonIdle
    /\ LocksIdle
    /\ ScriptIdle
    /\ LoggerAbsent
    /\ \E s \in StartSnapshots : PipelineStarted(s, TRUE, TRUE)

NextShutdown ==
    \/ \E h \in Handlers, tp \in Topics : Connected /\ Receive(h, tp)
    \/ \E h \in Handlers : ProcessAlive /\ InvokeEnter(h)
    \/ \E h \in Handlers : ProcessAlive /\ InvokeReturn(h)
    \/ \E h \in Handlers : ProcessAlive /\ StoreBegin(h)
    \/ \E h \in Handlers : ProcessAlive /\ StoreSink(h)
    \/ \E h \in Handlers : ProcessAlive /\ StoreEnd(h)
    \/ \E h \in Handlers : ProcessAlive /\ Return(h)
    \/ Signal
    \/ Disconnect
    \/ ManagerClose
    \/ Exit

SpecShutdown == InitShutdown /\ [][NextShutdown]_vars

\* ========================================================= storage manager
\* AddBackend and RemoveBackendByType as operations of storage.Manager,
\* called with any sink and any type tag, starting from an empty manager.
MaxSinks == 3

SinkPool ==
    { Sink("file", 0, ""), Sink("mysql", 0, "dsn1"),
      Sink("postgresql", 1, "dsn2"), Sink("mysql", 2, "dsn2") }

TypeTags == {"file", "mysql", "postgresql", "oracle", ""}

InManager(bs, sink) == \E i \in 1..Len(bs) : bs[i] = sink

SinkAdd(sink) ==
    /\ Len(backends) < MaxSinks
    /\ ~InManager(backends, sink)
    /\ SinkId(sink) \notin closed
    /\ backends' = AddBackend(backends, sink)
    /\ sinkOp' = [op |-> "add", arg |-> sink.tag, removed |-> 0]
    /\ UNCHANGED <<closed, rvars, wvars, hvars, exceptB>>

SinkRemove(backendType) ==
    /\ backends' = RemoveKept(backends, backendType)
    /\ closed' = closed \cup RemoveClosed(backends, backendType)
    /\ sinkOp' = [op |-> "remove", arg |-> backendType,
                  removed |-> Len(backends) - Len(RemoveKept(backends,
                                                             backendType))]
    /\ UNCHANGED <<rvars, wvars, hvars, exceptB>>

InitSinks ==
    /\ WatcherStarted
    /\ FileSinkEmpty
    /\ SqlIdle
    /\ MainRunning
    /\ ManagerUntouched
    /\ TopicIdle
    /\ CanonIdle
    /\ LocksIdle
    /\ ScriptIdle
    /\ LoggerAbsent
    /\ PipelineStarted(SnapStartA, FALSE, FALSE)

NextSinks ==
    \/ \E sink \in SinkPool : SinkAdd(sink)
    \/ \E tag \in TypeTags : SinkRemove(tag)

SpecSinks == InitSinks /\ [][NextSinks]_vars

\* ============================================================ topic parsing
\* GetDeviceTypeFromTopic on its own: every topic of up to MaxSegments
\* segments drawn from Segments is handed to the message callback once.
MaxSegments == 4

Segments == {"devices", "mydevices", "temperature", ""}

TopicInputs == UNION { [1..n -> Segments] : n \in 1..MaxSegments }

\* createMessageHandler, line 76: the device type is taken from the topic.
ExtractType ==
    /\ gtype = NotCalled
    /\ gtype' = GetDeviceTypeFromTopic(gtopic)
    /\ UNCHANGED <<gtopic, gend, exceptG>>

\* createMessageHandler, lines 77-85: an empty device type ends the callback
\* with a warning, any other one is handed to Transform.
TopicGuard ==
    /\ gtype # NotCalled
    /\ gend = NotCalled
    /\ gend' = IF gtype = "" THEN "dropped" ELSE "transform"
    /\ UNCHANGED <<gtopic, gtype, exceptG>>

InitTopic ==
    /\ WatcherStarted
    /\ FileSinkEmpty
    /\ SqlIdle
    /\ MainRunning
    /\ ManagerUntouched
    /\ CanonIdle
    /\ LocksIdle
    /\ ScriptIdle
    /\ LoggerAbsent
    /\ gtopic \in TopicInputs
    /\ gtype = NotCalled
    /\ gend = NotCalled
    /\ PipelineStarted(SnapStartA, FALSE, FALSE)

NextTopic ==
    \/ ExtractType
    \/ TopicGuard

SpecTopic == InitTopic /\ [][NextTopic]_vars

\* ========================================================= canonicalization
\* Transform, lines 173-193, on the mappings a script can return: Export,
\* json.Marshal, json.Unmarshal into DeviceData, device type fill-in.

\* A JSON value under the key device_name: absent, null, a string, a number.
NameValues == {Absent, "<null>", "", "h3", NonString}

\* A JSON value under the key timestamp.  A number is its integer part and
\* whether it has a fractional part: 1.5 is Number(1, TRUE).
TsAbsent == [kind |-> "absent", whole |-> 0, frac |-> FALSE]
TsNull == [kind |-> "null", whole |-> 0, frac |-> FALSE]
TsString == [kind |-> "string", whole |-> 0, frac |-> FALSE]
Number(whole, frac) == [kind |-> "number", whole |-> whole, frac |-> frac]

TimestampValues ==
    { TsAbsent, TsNull, TsString,
      Number(0, FALSE), Number(1700, FALSE), Number(-1, FALSE),
      Number(1, TRUE), Number(-1, TRUE) }

TypeValues == {Absent, "", "custom"}

Mappings ==
    [device_name : NameValues, timestamp : TimestampValues,
     device_type : TypeValues]

\* encoding/json decoding one key into a string field: an absent key and
\* null leave the zero value, a string is stored, anything else is an error.
UnmarshalString(v) ==
    IF v \in {Absent, "<null>"} THEN [err |-> FALSE, val |-> ""]
    ELSE IF v = NonString THEN [err |-> TRUE, val |-> ""]
    ELSE [err |-> FALSE, val |-> v]

\* encoding/json decoding one key into an int64 field: an absent key and
\* null leave 0, an integer literal is stored, a literal with a fraction
\* and every other kind of value is an error.
UnmarshalInt64(v) ==
    IF v.kind \in {"absent", "null"} THEN [err |-> FALSE, val |-> 0]
    ELSE IF v.kind = "number" /\ ~v.frac THEN [err |-> FALSE, val |-> v.whole]
    ELSE [err |-> TRUE, val |-> 0]

NoDeviceData == [DeviceName |-> "", DeviceType |-> "", Timestamp |-> 0]

\* Transform, lines 182-193.
TransformMapping(deviceType, m) ==
    LET name == UnmarshalString(m.device_name)
        type == UnmarshalString(m.device_type)
        ts == UnmarshalInt64(m.timestamp)
    IN IF name.err \/ type.err \/ ts.err
       THEN [err |-> "unmarshal", rec |-> NoDeviceData]
       ELSE [err |-> "",
             rec |-> [DeviceName |-> name.val,
                      DeviceType |-> IF type.val = "" THEN deviceType
                                     ELSE type.val,
                      Timestamp |-> ts.val]]

\* The script returned the mapping m for a message of device type t.
ScriptReturned(t, m) ==
    /\ jsResult = NoMapping
    /\ jsResult' = m
    /\ forType' = t
    /\ UNCHANGED <<deviceData, exceptC>>

TransformTail ==
    /\ jsResult # NoMapping
    /\ deviceData = NoReturn
    /\ deviceData' = TransformMapping(forType, jsResult)
    /\ UNCHANGED <<jsResult, forType, exceptC>>

InitCanon ==
    /\ WatcherStarted
    /\ FileSinkEmpty
    /\ SqlIdle
    /\ MainRunning
    /\ ManagerUntouched
    /\ TopicIdle
    /\ CanonIdle
    /\ LocksIdle
    /\ ScriptIdle
    /\ LoggerAbsent
    /\ PipelineStarted(SnapStartA, FALSE, FALSE)

NextCanon ==
    \/ \E t \in {"temperature", "humidity"}, m \in Mappings : ScriptReturned(t, m)
    \/ TransformTail

SpecCanon == InitCanon /\ [][NextCanon]_vars

\* ==================================================================== locks
\* The two RWMutexes, with the work of every writing operation split at its
\* Lock and Unlock calls and at every call that does I/O: ReloadTransformer,
\* RemoveBackendByType, NewDatabaseStorage, AddBackend and Manager.Close run
\* one after the other in the writing goroutine, against handlers that
\* look a transformer up and store.
MaxOps == 2

\* The positions at which the writer is inside a call that does I/O: reading
\* and compiling a script, opening a database, its DDL, closing a sink.
IoPositions == {"compile", "open", "ddl", "close"}

\* The lock an operation takes.
LockOf(op) == IF op = "reload" THEN "registry" ELSE "fanout"

FirstPosition(op) ==
    IF op = "reload" THEN "compile"
    ELSE IF op = "new" THEN "open"
    ELSE "lock"

MustWaitNever(lock) == FALSE

\* A handler's RLock waits for the writer holding the lock, and for a
\* writer that is itself waiting in Lock.
MustWait(lock) == lheld = lock \/ (lat = "lock" /\ LockOf(lop) = lock)

Storing == { h \in Handlers : lrd[h] = "storing" }
Blocked == { h \in Handlers : lrd[h] \in {"lookupWait", "storeWait"} }

\* ReloadTransformer(t, s.Transformers[t]) is called.
ReloadBegin(s, t) ==
    /\ lop = "none"
    /\ lcount < MaxOps
    /\ t \in DOMAIN s.Transformers
    /\ snapshot' = s
    /\ lop' = "reload"
    /\ ltag' = t
    /\ lat' = FirstPosition("reload")
    /\ lcount' = lcount + 1
    /\ UNCHANGED <<lidx, lnew, lsink, lheld, lrd>>
    /\ UNCHANGED <<rvars, before, reloads, wpc, remaining, pendingT,
                   pendingSink, svars, hvars, exceptL>>

\* RemoveBackendByType(tag), NewDatabaseStorage(tag, dsn), AddBackend(the
\* sink NewDatabaseStorage returned) or Manager.Close is called.
WriterBegin(op, tag) ==
    /\ lop = "none"
    /\ lcount < MaxOps
    /\ op = "add" => lsink # NilSink
    /\ lop' = op
    /\ ltag' = tag
    /\ lat' = FirstPosition(op)
    /\ lcount' = lcount + 1
    /\ UNCHANGED <<lidx, lnew, lsink, lheld, lrd, pvars, exceptL>>

WriterEnds ==
    /\ lop' = "none"
    /\ ltag' = ""
    /\ lat' = "none"
    /\ lidx' = 0
    /\ lnew' = <<>>

\* ReloadTransformer, lines 198-219: the script is read and compiled.
CompileDone ==
    /\ lat = "compile"
    /\ LET b == BuildTransformer(snapshot.Transformers[ltag],
                                 [gen |-> lcount, type |-> ltag])
       IN IF b.err # ""
          THEN WriterEnds /\ UNCHANGED pendingT
          ELSE /\ pendingT' = [type |-> ltag, tr |-> b.tr]
               /\ lat' = "lock"
               /\ UNCHANGED <<lop, ltag, lidx, lnew>>
    /\ UNCHANGED <<lsink, lheld, lrd, lcount>>
    /\ UNCHANGED <<rvars, snapshot, before, reloads, wpc, remaining,
                   pendingSink, svars, hvars, exceptL>>

\* NewMySQLStorage / NewPostgreSQLStorage: the database is opened and
\* pinged, then InitDatabase runs the DDL; either can fail.
OpenDone(ok) ==
    /\ lat = "open"
    /\ IF ok /\ NewDatabaseStorage(ltag, "dsn2", TRUE, lcount).err = ""
       THEN lat' = "ddl" /\ UNCHANGED <<lop, ltag, lidx, lnew>>
       ELSE WriterEnds
    /\ UNCHANGED <<lsink, lheld, lrd, lcount, pvars, exceptL>>

DdlDone(ok) ==
    /\ lat = "ddl"
    /\ lsink' = NewDatabaseStorage(ltag, "dsn2", ok, lcount).sink
    /\ WriterEnds
    /\ UNCHANGED <<lheld, lrd, lcount, pvars, exceptL>>

\* m.mutex.Lock() returns: no Manager.Store holds the read lock.
AcquireWrite ==
    /\ lat = "lock"
    /\ LockOf(lop) = "fanout" => Storing = {}
    /\ lheld' = LockOf(lop)
    /\ lat' = IF lop = "reload" THEN "swap"
              ELSE IF lop = "add" THEN "append"
              ELSE "scan"
    /\ lidx' = 1
    /\ lnew' = <<>>
    /\ UNCHANGED <<lop, ltag, lsink, lrd, lcount, pvars, exceptL>>

\* ReloadTransformer, line 223.
SwapStep ==
    /\ lat = "swap"
    /\ transformers' = Swap(transformers, pendingT.type, pendingT.tr)
    /\ built' = built \cup {pendingT.type}
    /\ pendingT' = NoPending
    /\ lat' = "unlock"
    /\ UNCHANGED <<lop, ltag, lidx, lnew, lsink, lheld, lrd, lcount>>
    /\ UNCHANGED <<startTypes, snapshot, before, reloads, wpc, remaining,
                   pendingSink, svars, hvars, exceptL>>

\* AddBackend, line 63.
AppendStep ==
    /\ lat = "append"
    /\ backends' = AddBackend(backends, lsink)
    /\ lsink' = NilSink
    /\ lat' = "unlock"
    /\ UNCHANGED <<lop, ltag, lidx, lnew, lheld, lrd, lcount>>
    /\ UNCHANGED <<closed, rvars, wvars, hvars, exceptL>>

\* One iteration of the loop of RemoveBackendByType (lines 71-104) or of
\* Manager.Close (lines 51-55) up to its Close call, or the end of the loop.
ScanStep ==
    /\ lat = "scan"
    /\ IF lidx > Len(backends)
       THEN /\ backends' = IF lop = "remove" THEN lnew ELSE backends
            /\ lat' = "unlock"
            /\ UNCHANGED <<lidx, lnew>>
       ELSE IF lop = "remove" /\ ~IsRemoved(backends[lidx], ltag)
       THEN /\ lnew' = Append(lnew, backends[lidx])
            /\ lidx' = lidx + 1
            /\ UNCHANGED <<lat, backends>>
       ELSE IF lop = "remove" /\ backends[lidx].tag = "file"
       THEN /\ lidx' = lidx + 1
            /\ UNCHANGED <<lat, lnew, backends>>
       ELSE /\ lat' = "close"
            /\ UNCHANGED <<lidx, lnew, backends>>
    /\ UNCHANGED <<lop, ltag, lsink, lheld, lrd, lcount>>
    /\ UNCHANGED <<closed, rvars, wvars, hvars, exceptL>>

\* backend.Close() returns (lines 52 and 78, 88).
CloseCall ==
    /\ lat = "close"
    /\ closed' = closed \cup {SinkId(backends[lidx])}
    /\ lidx' = lidx + 1
    /\ lat' = "scan"
    /\ UNCHANGED <<lop, ltag, lnew, lsink, lheld, lrd, lcount>>
    /\ UNCHANGED <<backends, rvars, wvars, hvars, exceptL>>

\* m.mutex.Unlock(): the handlers waiting for this lock go on.
ReleaseWrite ==
    /\ lat = "unlock"
    /\ lheld' = "none"
    /\ lrd' = [h \in Handlers |->
          IF lheld = "registry" /\ lrd[h] = "lookupWait" THEN "looked"
          ELSE IF lheld = "fanout" /\ lrd[h] = "storeWait" THEN "storing"
          ELSE lrd[h]]
    /\ WriterEnds
    /\ UNCHANGED <<lsink, lcount, pvars, exceptL>>

\* Transform, lines 159-161: RLock, lookup, RUnlock.
ReaderLookup(h) ==
    /\ lrd[h] = "idle"
    /\ lrd' = [lrd EXCEPT ![h] =
          IF MustWait("registry") THEN "lookupWait" ELSE "looked"]
    /\ UNCHANGED <<lop, ltag, lat, lidx, lnew, lsink, lheld, lcount,
                   pvars, exceptL>>

\* Manager.Store, line 33: RLock.
ReaderStore(h) ==
    /\ lrd[h] = "looked"
    /\ lrd' = [lrd EXCEPT ![h] =
          IF MustWait("fanout") THEN "storeWait" ELSE "storing"]
    /\ UNCHANGED <<lop, ltag, lat, lidx, lnew, lsink, lheld, lcount,
                   pvars, exceptL>>

\* Manager.Store, lines 36-41: one backend.Store call of the loop.
ReaderSinkStore(h) ==
    /\ lrd[h] = "storing"
    /\ ~StoreLoopDone(calls[h], backends)
    /\ \E err \in {"", "ioerr"} :
          calls' = [calls EXCEPT ![h] =
              Append(@, [sink |-> SinkId(backends[Len(@) + 1]),
                         boot |-> backends[Len(@) + 1].boot,
                         err |-> err])]
    /\ UNCHANGED <<lop, ltag, lat, lidx, lnew, lsink, lheld, lrd, lcount>>
    /\ UNCHANGED <<rvars, wvars, svars, msgs, hpc, dtype, held, raced, res,
                   nStore, outcome, exceptL>>

\* Manager.Store returns: the deferred RUnlock.
ReaderDone(h) ==
    /\ lrd[h] = "storing"
    /\ StoreLoopDone(calls[h], backends)
    /\ lrd' = [lrd EXCEPT ![h] = "idle"]
    /\ calls' = [calls EXCEPT ![h] = <<>>]
    /\ UNCHANGED <<lop, ltag, lat, lidx, lnew, lsink, lheld, lcount>>
    /\ UNCHANGED <<rvars, wvars, svars, msgs, hpc, dtype, held, raced, res,
                   nStore, outcome, exceptL>>

InitLocks ==
    /\ WatcherStarted
    /\ FileSinkEmpty
    /\ SqlIdle
    /\ MainRunning
    /\ ManagerUntouched
    /\ TopicIdle
    /\ CanonIdle
    /\ LocksIdle
    /\ ScriptIdle
    /\ LoggerAbsent
    /\ PipelineStarted(SnapStartA, TRUE, TRUE)

NextLocks ==
    \/ \E s \in ReloadSnapshots, t \in DeviceTypes : ReloadBegin(s, t)
    \/ \E tag \in {"mysql", "postgresql", "file"} : WriterBegin("remove", tag)
    \/ \E tag \in {"mysql", "oracle"} : WriterBegin("new", tag)
    \/ WriterBegin("add", "")
    \/ WriterBegin("close", "")
    \/ CompileDone
    \/ \E ok \in BOOLEAN : OpenDone(ok)
    \/ \E ok \in BOOLEAN : DdlDone(ok)
    \/ AcquireWrite
    \/ SwapStep
    \/ AppendStep
    \/ ScanStep
    \/ CloseCall
    \/ ReleaseWrite
    \/ \E h \in Handlers : ReaderLookup(h)
    \/ \E h \in Handlers : ReaderStore(h)
    \/ \E h \in Handlers : ReaderSinkStore(h)
    \/ \E h \in Handlers : ReaderDone(h)

SpecLocks == InitLocks /\ [][NextLocks]_vars

\* ========================================================= humidity script
\* transform of scripts/humidity.js with the helpers newTransformer injects,
\* over payloads in JSON and in other formats.
Payloads ==
    { Payload("json", h, y, i, n) :
        h \in {Undefined, 65}, y \in {Undefined, 0, 65},
        i \in {Absent, "h3"}, n \in {Absent, "h2"} }
    \cup { Payload("kv", h, y, i, n) :
        h \in {Undefined, 0, 65}, y \in {Undefined, 70},
        i \in {Absent, "h3"}, n \in {Absent, "d1"} }
    \cup { Payload("jsonnumber", h, Undefined, Absent, Absent) : h \in {0, 65} }
    \cup { Payload("jsonnull", Undefined, Undefined, Absent, Absent),
           Payload("text", Undefined, Undefined, Absent, Absent) }

\* The host function parseJSON (newTransformer, lines 78-86): the decoded
\* value, or nil when json.Unmarshal fails; it never throws.
NullValue == Payload("null", Undefined, Undefined, Absent, Absent)

parseJSON(p) ==
    IF p.format \in {"json", "jsonnumber"} THEN p ELSE NullValue

parseJSONThrows(p) == FALSE

\* JavaScript's !parsed, a || b on strings and a || b on numbers.
Falsy(v) == v = NullValue \/ (v.format = "jsonnumber" /\ v.hum = 0)
OrString(a, b) == IF a \in {Absent, ""} THEN b ELSE a
OrNumber(a, b) == IF a \in {Undefined, 0} THEN b ELSE a

\* parseNonJsonFormat, lines 215-263.
parseNonJsonFormat(p) ==
    IF p.format = "kv" /\ (p.hum # Undefined \/ p.humidity # Undefined)
    THEN ScriptOut("mapping", "keyvalue",
                   OrString(p.id, OrString(p.device_name, "unknown")),
                   OrNumber(p.hum, p.humidity), Absent)
    ELSE ScriptOut("mapping", "unparseable", Absent, Undefined,
                   "Unparseable data format")

\* transform, lines 123-212.  In a JSON payload `hum` stands for data.hum.
transform(p, console) ==
    IF ~console
    THEN ScriptOut("throw", "console", Absent, Undefined, "ReferenceError")
    ELSE IF parseJSONThrows(p)
    THEN parseNonJsonFormat(p)
    ELSE IF Falsy(parseJSON(p))
    THEN ScriptOut("mapping", "invalid", Absent, Undefined,
                   "Invalid data format")
    ELSE IF p.format = "json" /\ p.humidity # Undefined
    THEN ScriptOut("mapping", "first",
                   OrString(p.device_name, "unknown"), p.humidity, Absent)
    ELSE IF p.format = "json" /\ p.hum # Undefined
    THEN ScriptOut("mapping", "second", OrString(p.id, "unknown"), p.hum,
                   Absent)
    ELSE ScriptOut("mapping", "unknown", Absent, Undefined,
                   "Unknown humidity sensor data format")

\* Transform, line 168: the script is called with the payload.
ScriptCalled(p, console) ==
    /\ jpayload = NoPayload
    /\ jpayload' = p
    /\ jconsole' = console
    /\ UNCHANGED <<jresult, exceptJ>>

ScriptEnds ==
    /\ jpayload # NoPayload
    /\ jresult = NoScriptOut
    /\ jresult' = transform(jpayload, jconsole)
    /\ UNCHANGED <<jpayload, jconsole, exceptJ>>

InitScript ==
    /\ WatcherStarted
    /\ FileSinkEmpty
    /\ SqlIdle
    /\ MainRunning
    /\ ManagerUntouched
    /\ TopicIdle
    /\ CanonIdle
    /\ LocksIdle
    /\ ScriptIdle
    /\ LoggerAbsent
    /\ PipelineStarted(SnapStartB, FALSE, FALSE)

NextScript ==
    \/ \E p \in Payloads, console \in BOOLEAN : ScriptCalled(p, console)
    \/ ScriptEnds

SpecScript == InitScript /\ [][NextScript]_vars

\* ================================================================== logger
\* Logger.log with rotate and cleanOldLogs, for entries at or above the
\* logger's level and a file system whose calls succeed.  Sizes are counted
\* in units of half a MiB; a backup's modification time is the time of the
\* last write to it, so backups are ordered by the rotation that made them.
MaxLogTime == 2
MaxRotations == 3
MiB == 2

EntrySizes == {1, 2}

\* The backup file rotate renames the current file to: its name carries
\* time.Now() formatted as 20060102-150405, to the second.
Backup(stamp, seq) == [stamp |-> stamp, seq |-> seq]

\* os.Rename(l.filePath, backupPath): a file of that name is replaced.
Rename(matches, new) == { b \in matches : b.stamp # new.stamp } \cup {new}
Replaced(matches, new) ==
    { b.seq : b \in { c \in matches : c.stamp = new.stamp } }

\* cleanOldLogs: with more than maxBackups matches, the oldest are removed.
cleanOldLogs(matches, keep) ==
    IF Cardinality(matches) > keep
    THEN { b \in matches :
             Cardinality({ c \in matches : c.seq > b.seq }) < keep }
    ELSE matches

\* Logger.output is an io.Writer: the log file (*os.File), or the
\* io.MultiWriter over os.Stdout and the log file.  What a write to it reaches:
Destinations(out) ==
    CASE out = "file" -> {"file"}
      [] out = "multi" -> {"stdout", "file"}
      [] OTHER -> {}

\* New, lines 397-402: the writer for LoggerConfig.Console.
NewOutput(cfgConsole) == IF cfgConsole THEN "multi" ELSE "file"

\* rotate, lines 507-522: consoleConfigured is the ok of the type assertion
\* l.output.(*os.File), then set to true when it was false and l.output
\* is not nil; the new writer follows it.
RotateOutput(out) ==
    LET isFile == out = "file"
        consoleConfigured == IF ~isFile /\ out # "nil" THEN TRUE ELSE isFile
    IN IF consoleConfigured THEN "multi" ELSE "file"

\* logger.New(config), lines 372-410; `size` is the existing file's size.
LoggerNew(cfgMaxSize, cfgMaxBackups, cfgConsole, size) ==
    /\ maxSize = -1
    /\ logConsole' = cfgConsole
    /\ output' = NewOutput(cfgConsole)
    /\ maxSize' = cfgMaxSize * MiB
    /\ maxBackups' = cfgMaxBackups
    /\ currentSize' = size
    /\ UNCHANGED <<logClock, backupFiles, rotations, overwritten, lastWrite,
                   exceptO>>

\* Logger.log, lines 420-474, writing an entry of n units, and rotate.
LogWrite(n) ==
    /\ maxSize # -1
    /\ rotations < MaxRotations
    /\ LET total == currentSize + n
           new == Backup(logClock, rotations + 1)
       IN /\ lastWrite' = [total |-> total, rotated |-> total >= maxSize,
                           to |-> Destinations(output)]
          /\ output' = IF total >= maxSize THEN RotateOutput(output) ELSE output
          /\ IF total >= maxSize
             THEN /\ overwritten' = overwritten \cup Replaced(backupFiles, new)
                  /\ backupFiles' =
                        cleanOldLogs(Rename(backupFiles, new), maxBackups)
                  /\ rotations' = rotations + 1
                  /\ currentSize' = 0
             ELSE /\ currentSize' = total
                  /\ UNCHANGED <<backupFiles, rotations, overwritten>>
    /\ UNCHANGED <<maxSize, maxBackups, logClock, logConsole, exceptO>>

LogTick ==
    /\ logClock < MaxLogTime
    /\ logClock' = logClock + 1
    /\ UNCHANGED <<maxSize, maxBackups, currentSize, backupFiles, rotations,
                   overwritten, lastWrite, logConsole, output, exceptO>>

InitLog ==
    /\ WatcherStarted
    /\ FileSinkEmpty
    /\ SqlIdle
    /\ MainRunning
    /\ ManagerUntouched
    /\ TopicIdle
    /\ CanonIdle
    /\ LocksIdle
    /\ ScriptIdle
    /\ LoggerAbsent
    /\ PipelineStarted(SnapStartA, FALSE, FALSE)

NextLog ==
    \/ \E m \in {0, 1}, k \in {0, 1, 2}, c \in BOOLEAN, size \in {0, 1} :
          LoggerNew(m, k, c, size)
    \/ \E n \in EntrySizes : LogWrite(n)
    \/ LogTick

SpecLog == InitLog /\ [][NextLog]_vars

\* ================================================================== claims
CallIds(cs) == [i \in 1..Len(cs) |-> cs[i].sink]
Registered(t) == transformers[t] # NoEntry

\* C1: no two tasks are ever executing inside the same transformer's script
\* VM at the same time.
C1_NoConcurrentVM ==
    \A h1, h2 \in Handlers :
        (h1 # h2 /\ hpc[h1] = "inVM" /\ hpc[h2] = "inVM")
            => held[h1].vm # held[h2].vm

\* C2: hot swap is atomic for readers: an invocation returns the result of
\* the script of the entry it looked up, also when the entry was swapped
\* meanwhile; a lookup sees the entry of the last swap; a swap never leaves
\* the entry of a registered type missing or half-built.
C2_HotSwapAtomic ==
    [][ /\ \A h \in Handlers :
              (hpc[h] = "inVM" /\ hpc'[h] = "store")
                  => res'[h].by = held[h].script
        /\ \A h \in Handlers :
              (hpc[h] = "idle" /\ hpc'[h] = "invoke")
                  => held'[h] = transformers[dtype'[h]]
        /\ \A t \in DeviceTypes :
              Registered(t) =>
                  /\ transformers'[t] # NoEntry
                  /\ HasCallableTransform(transformers'[t].script)
      ]_vars

\* C3: a ReloadTransformer call that fails leaves the registry unchanged
\* (the previous entry of the type stays), and the callback goes on with
\* the other device types of the snapshot.
C3_FailedReloadKeepsRegistry ==
    [][ (wpc = "transformers" /\ wpc' = "transformers"
         /\ remaining' # remaining)
        => \E t \in remaining :
              /\ BuildTransformer(snapshot.Transformers[t],
                                  [gen |-> reloads, type |-> t]).err # ""
              /\ transformers' = transformers
              /\ remaining' = remaining \ {t}
      ]_vars

\* C3 witness: the reload of the "broken" snapshot has failed for both of
\* its types, the startup entry of temperature is still registered, and a
\* message of that type is being transformed by it.
C3_Witness ==
    /\ snapshot.name = "broken"
    /\ reloads = 1
    /\ wpc = "idle"
    /\ transformers["temperature"].vm.gen = 0
    /\ \E h \in Handlers :
          hpc[h] = "inVM" /\ held[h] = transformers["temperature"]

\* C4 (as stated): once no reload is in progress, every device type of the
\* current snapshot has a registry entry with a callable transform.
C4_EverySnapshotTypeRegistered ==
    wpc = "idle" =>
        \A t \in DOMAIN snapshot.Transformers :
            Registered(t) /\ HasCallableTransform(transformers[t].script)

\* C4 (amended): every device type of the current snapshot whose
\* transformer was built successfully at least once, at startup or by a
\* reload, has a registry entry with a callable transform; a type none of
\* whose builds succeeded has no entry.
C4_BuiltTypesRegistered ==
    /\ \A t \in DOMAIN snapshot.Transformers \cap built :
          Registered(t) /\ HasCallableTransform(transformers[t].script)
    /\ \A t \in DeviceTypes \ built : ~Registered(t)
    /\ startTypes \subseteq built

\* C4 witness: after a reload whose scripts all fail, the startup type is
\* still registered and the type the snapshot introduced is not.
C4_Witness ==
    /\ snapshot.name = "broken"
    /\ wpc = "idle"
    /\ reloads = 1
    /\ "humidity" \notin built
    /\ Registered("temperature")

\* C5: Transform never fails with the no-transformer error for a type
\* NewManager was given, whatever reloads happened; for a type that was
\* never registered it always fails with that error, and no script runs.
C5_NoTransformerOnlyForUnregistered ==
    \A h \in Handlers :
        /\ (hpc[h] = "failed" /\ outcome[h] = "notransformer")
              => dtype[h] \notin startTypes
        /\ (dtype[h] # "" /\ dtype[h] \notin built)
              => (hpc[h] = "failed" /\ outcome[h] = "notransformer"
                  /\ held[h] = NoEntry /\ res[h] = NoResult)

\* C5 witness: after a failed reload of a startup type, a handler has
\* found its transformer, and another one fails on an unregistered type.
C5_Witness ==
    /\ snapshot.name = "broken"
    /\ wpc = "idle"
    /\ \E h1, h2 \in Handlers :
          /\ hpc[h1] = "invoke" /\ dtype[h1] \in startTypes
          /\ hpc[h2] = "failed" /\ outcome[h2] = "notransformer"
          /\ dtype[h2] = "pressure"

\* C6: every record passed to Manager.Store has a non-empty device type:
\* a message without device type never reaches Transform, and a script
\* result without device type gets the one of the topic.
C6_RecordHasDeviceType ==
    \A h \in Handlers :
        /\ hpc[h] \in {"invoke", "inVM", "store"} => dtype[h] # ""
        /\ (hpc[h] = "failed" /\ dtype[h] = "") => outcome[h] = "notype"
        /\ hpc[h] = "store" =>
              /\ Record(h).DeviceType # ""
              /\ (res[h].kind = "null" \/ res[h].device_type \in {Absent, ""})
                    => Record(h).DeviceType = dtype[h]

\* C6 witness: a script result with an empty device_type is about to be
\* stored.
C6_Witness ==
    \E h \in Handlers :
        /\ hpc[h] = "store"
        /\ res[h].kind = "mapping"
        /\ res[h].device_type = ""

\* C7: Manager.Store calls Store once on every installed sink, in the
\* order of the sink sequence, whatever errors the sinks return, and
\* returns nil.
C7_StoreCallsEverySink ==
    [][ \A h \in Handlers :
          /\ hpc'[h] = "storing" =>
                /\ Len(calls'[h]) <= Len(backends')
                /\ CallIds(calls'[h]) = SubSeq(SinkIds(backends'), 1,
                                               Len(calls'[h]))
          /\ (hpc[h] = "storing" /\ hpc'[h] = "done") =>
                /\ CallIds(calls[h]) = SinkIds(backends)
                /\ outcome'[h] = "stored"
      ]_vars

\* C7 witness: Manager.Store has called both installed sinks although the
\* first one returned an error.
C7_Witness ==
    \E h \in Handlers :
        /\ hpc[h] = "storing"
        /\ Len(backends) = 2
        /\ Len(calls[h]) = 2
        /\ calls[h][1].err # ""

\* C8: every sink of the sink sequence, and every sink Store is called
\* on, was returned by a constructor whose bootstrap succeeded; a failed
\* bootstrap during a reload ends the callback with the sink set as the
\* removal left it.
C8_OnlyBootstrappedSinks ==
    [][ /\ \A i \in 1..Len(backends') : backends'[i].boot
        /\ \A h \in Handlers : \A i \in 1..Len(calls'[h]) : calls'[h][i].boot
        /\ (wpc = "dbNew" /\ wpc' = "idle") => backends' = backends
      ]_vars

\* C8 witness: the bootstrap of both startup sinks failed and the service
\* runs with an empty sink set: a message has gone through the fan-out.
C8_Witness ==
    /\ snapshot.name = "startA"
    /\ reloads = 0
    /\ backends = <<>>
    /\ \E h \in Handlers : hpc[h] = "done"

\* C9: a message leads to at most one Manager.Store call, and to none when
\* its device type is missing, no transformer is registered or Transform
\* failed; a failed message is not retried.
C9_FailureIsTerminal ==
    [][ \A h \in Handlers :
          /\ nStore'[h] <= 1
          /\ hpc'[h] = "failed" => (nStore'[h] = 0 /\ calls'[h] = <<>>)
          /\ hpc'[h] = "store" =>
                /\ dtype'[h] # ""
                /\ nStore'[h] = 0
                /\ TransformFinish(dtype'[h], res'[h]).err = ""
          /\ calls'[h] # <<>> => (hpc'[h] = "storing" /\ nStore'[h] = 1)
          /\ hpc[h] = "failed" => hpc'[h] \in {"failed", "idle"}
          /\ hpc[h] = "done" => hpc'[h] \in {"done", "idle"}
      ]_vars

\* C9 witness: a message whose transformation failed has been dropped.
C9_Witness ==
    \E h \in Handlers : hpc[h] = "failed" /\ outcome[h] = "transformerr"

\* C10: a script result with a non-empty `error` field makes Transform
\* return an error, so the callback never passes a record for it to
\* Manager.Store.
C10_ScriptErrorDropsMessage ==
    \A h \in Handlers :
        hpc[h] = "store" => res[h].error \in {Absent, ""}

\* C11: Transform returns an error for every script result that is not a
\* mapping (null, undefined, a scalar, a sequence), so the callback passes
\* a record to Manager.Store only for a mapping.
C11_NonMappingResultIsError ==
    \A h \in Handlers :
        hpc[h] = "store" => res[h].kind = "mapping"

Last(q) == q[Len(q)]

\* C12 (as stated): the reload callback is invoked only for an event that
\* includes a write and comes more than 2 seconds after the last
\* delivered event.
C12_DebounceMoreThanTwoSeconds ==
    [][ Len(deliveries') > Len(deliveries) =>
          /\ IsWrite(lastEvent'.op)
          /\ (deliveries # <<>> => now - Last(deliveries) > DebounceInterval)
      ]_vars

\* C12 (amended): the reload callback is invoked only for an event that
\* includes a write and is handled at least 2 seconds after the last write
\* event that passed the debounce (whether or not its content parsed), so
\* any two invocations are at least 2 seconds apart.
C12_DebounceAtLeastTwoSeconds ==
    [][ Len(deliveries') > Len(deliveries) =>
          /\ IsWrite(lastEvent'.op)
          /\ (lastChangeTime # Never =>
                now - lastChangeTime >= DebounceInterval)
          /\ (deliveries # <<>> =>
                now - Last(deliveries) >= DebounceInterval)
          /\ lastChangeTime' = now
          /\ \A i, j \in 1..Len(deliveries') :
                i < j => deliveries'[j] - deliveries'[i] >= DebounceInterval
      ]_vars

\* C12 witness: two reloads were delivered exactly 2 seconds apart, and a
\* write event inside the window after the second one was dropped.
C12_Witness ==
    /\ Len(deliveries) = 2
    /\ deliveries[2] - deliveries[1] = DebounceInterval
    /\ lastEvent.result = "debounced"
    /\ IsWrite(lastEvent.op)

\* C13: an event whose content fails to parse does not invoke the reload
\* callback and leaves the registry and the sink set as they were; the
\* watcher stays active after it and after a callback that returned an
\* error: every later write event outside the debounce window whose
\* content parses is delivered.
C13_ParseFailureKeepsState ==
    [][ /\ watching'
        /\ lastEvent'.seq # lastEvent.seq =>
              /\ lastEvent'.result = "parsefail" =>
                    /\ deliveries' = deliveries
                    /\ UNCHANGED <<transformers, backends, closed, snapshot,
                                   reloads, wpc>>
              /\ (/\ IsWrite(lastEvent'.op)
                  /\ ~Debounced(lastChangeTime, now)
                  /\ lastEvent'.parses) =>
                    /\ deliveries' = Append(deliveries, now)
                    /\ wpc' = "transformers"
                    /\ reloads' = reloads + 1
      ]_vars

\* C13 witness: a write event is delivered after one whose content failed
\* to parse, and the snapshot delivered before the failure was in force
\* in between.
C13_Witness ==
    /\ lastEvent.prev = "parsefail"
    /\ lastEvent.result \in {"applied", "callbackerr"}
    /\ Len(deliveries) = 2

\* C14: reload is idempotent: when the callback has ended for a snapshot
\* equal to the one already in force, every device type has a transformer
\* of the same script as before and the sink sequence has the same sink
\* types in the same order.
C14_ReloadIdempotent ==
    (wpc = "idle" /\ before.same) =>
        /\ Scripts(transformers) = before.scripts
        /\ SinkTags(backends) = before.sinks

\* C15: the file sink never loses data: every record whose Store returned
\* nil is kept in a file of its own.
C15_FileSinkKeepsEveryRecord ==
    /\ \A r \in acked : \E f \in files : f.rec = r
    /\ Cardinality(files) = Cardinality(acked)

\* C16: an SQL sink's Store is atomic: when it returns nil the transaction
\* is committed with the device row and every attribute row; when it
\* returns an error the transaction is rolled back (or was never begun),
\* and nothing is persistent.
C16_SqlStoreAtomic ==
    qpc = "returned" =>
        IF qret = "nil"
        THEN /\ tx = "committed"
             /\ rows = {<<"device", 0>>} \cup AttrRows(qin.nattrs)
        ELSE /\ tx \in {"none", "rolledback", "aborted"}
             /\ rows = {}

InFlight(h) == hpc[h] \in {"invoke", "inVM", "store", "storing"}

\* C17: shutdown ordering: no sink is closed before the broker client is
\* disconnected; Manager.Close calls Close once on every installed sink;
\* a message handling in flight is not aborted: no Store is called on a
\* sink Manager.Close has closed, and no handling is cut off when main
\* returns.
C17_ShutdownOrdering ==
    /\ closeLog # <<>> => mainpc \in {"closed", "exited"}
    /\ mainpc \in {"closed", "exited"} =>
          /\ closeLog = SinkIds(backends)
          /\ \A i, j \in 1..Len(closeLog) :
                closeLog[i] = closeLog[j] => i = j
    /\ \A h \in Handlers : \A i \in 1..Len(calls[h]) :
          calls[h][i].sink \notin closed
    /\ mainpc = "exited" => \A h \in Handlers : ~InFlight(h)

\* C18: after a reload whose snapshot no longer contains a device type,
\* the type's transformer is released: the registry has no entry for it,
\* so Transform returns the no-transformer error for it.
C18_RemovedTypeReleased ==
    (wpc = "idle" /\ reloads > 0) =>
        \A t \in DeviceTypes \ DOMAIN snapshot.Transformers :
            /\ ~Registered(t)
            /\ AfterLookup(t, Lookup(transformers, t)) = "notransformer"

IsDatabaseSink(b) == b.tag \in {"mysql", "postgresql"}
DatabaseSinks(bs) == { i \in 1..Len(bs) : IsDatabaseSink(bs[i]) }

\* C19: after a reload that configures a database sink, the sink set
\* holds at most one database sink, and none built from a superseded
\* configuration (another type or another DSN than the snapshot's).
C19_DatabaseSinkReplaced ==
    (wpc = "idle" /\ reloads > 0 /\ snapshot.Database.Enabled) =>
        /\ Cardinality(DatabaseSinks(backends)) <= 1
        /\ \A i \in DatabaseSinks(backends) :
              /\ backends[i].tag = snapshot.Database.Type
              /\ backends[i].dsn = snapshot.Database.DSN
              /\ backends[i].gen = reloads

WithTag(bs, tag) == { i \in 1..Len(bs) : bs[i].tag = tag }

AppendsOne(bs, bs2) ==
    /\ Len(bs2) = Len(bs) + 1
    /\ SubSeq(bs2, 1, Len(bs)) = bs

\* C20 (as stated): RemoveBackendByType(tag) removes exactly the sinks of
\* that tag, keeps the others in their order and calls Close on every
\* removed sink; AddBackend appends the sink and changes nothing else.
C20_RemoveClosesEveryRemovedSink ==
    [][ /\ sinkOp'.op = "remove" =>
              /\ backends' = SelectSeq(backends,
                                       LAMBDA b : b.tag # sinkOp'.arg)
              /\ closed' = closed \cup
                    { SinkId(backends[i]) :
                        i \in WithTag(backends, sinkOp'.arg) }
        /\ sinkOp'.op = "add" =>
              /\ AppendsOne(backends, backends')
              /\ closed' = closed
      ]_vars

\* C20 (amended): RemoveBackendByType(tag) removes exactly the sinks of
\* that tag and keeps the others in their order; it calls Close on every
\* removed mysql or postgresql sink, and on no removed file sink;
\* AddBackend appends the sink and changes nothing else.
C20_RemoveClosesDatabaseSinks ==
    [][ /\ sinkOp'.op = "remove" =>
              /\ backends' = SelectSeq(backends,
                                       LAMBDA b : b.tag # sinkOp'.arg)
              /\ sinkOp'.removed =
                    Cardinality(WithTag(backends, sinkOp'.arg))
              /\ closed' = closed \cup
                    { SinkId(backends[i]) :
                        i \in { j \in WithTag(backends, sinkOp'.arg) :
                                  IsDatabaseSink(backends[j]) } }
        /\ sinkOp'.op = "add" =>
              /\ AppendsOne(backends, backends')
              /\ backends'[Len(backends')].tag = sinkOp'.arg
              /\ closed' = closed
      ]_vars

\* C20 witness: RemoveBackendByType("file") has removed the file sink, the
\* two database sinks stay, and Close was not called on the file sink.
C20_Witness ==
    /\ sinkOp.op = "remove"
    /\ sinkOp.arg = "file"
    /\ sinkOp.removed = 1
    /\ Len(backends) = 2
    /\ SinkId(Sink("file", 0, "")) \notin closed

\* C21: GetDeviceTypeFromTopic returns the topic's second segment exactly
\* when the first segment is "devices" and the second one is non-empty, and
\* "" for every other topic, and the message of a topic that yields "" is
\* dropped.
C21_TypeOnlyFromDevicesPrefix ==
    /\ gtype # NotCalled =>
          gtype = IF /\ Len(gtopic) >= 2
                     /\ gtopic[1] = "devices"
                     /\ gtopic[2] # ""
                  THEN gtopic[2]
                  ELSE ""
    /\ gend # NotCalled => (gend = "dropped" <=> gtype = "")

\* C22: for every script result mapping without device_name, the record
\* Transform returns has device_name "unknown".
C22_NameDefaultsToUnknown ==
    (/\ deviceData # NoReturn
     /\ jsResult.device_name = Absent
     /\ deviceData.err = "")
       => deviceData.rec.DeviceName = "unknown"

\* C23: a numeric timestamp yields a record with that value truncated to
\* an integer, an absent or unparsable one yields timestamp 0, and in no
\* case is the message rejected because of its timestamp.
C23_TimestampTotal ==
    (/\ deviceData # NoReturn
     /\ jsResult.device_name # NonString
     /\ jsResult.device_type # NonString)
       => /\ deviceData.err = ""
          /\ deviceData.rec.Timestamp =
                IF jsResult.timestamp.kind = "number"
                THEN jsResult.timestamp.whole
                ELSE 0

\* C24 (as stated): Transform holds the registry read lock for the whole
\* script invocation, so the swap of ReloadTransformer never takes place
\* while a script invocation is running.
C24_NoSwapDuringInvocation ==
    [][ transformers' # transformers
          => \A h \in Handlers : hpc[h] # "inVM" ]_vars

\* C24 (amended): the read lock covers the lookup only, so the swap can
\* take place while invocations are running; it installs the new entry
\* for every later lookup, and an invocation that is running is not
\* interrupted and stays in the transformer it looked up.
C24_SwapLeavesInvocationsRunning ==
    [][ (wpc = "swap" /\ wpc' # "swap") =>
          /\ Lookup(transformers', pendingT.type) = pendingT.tr
          /\ \A h \in Handlers :
                hpc[h] = "inVM" => (hpc'[h] = "inVM" /\ held'[h] = held[h])
      ]_vars

C24_Witness ==
    \E h \in Handlers :
        /\ hpc[h] = "inVM"
        /\ Registered(dtype[h])
        /\ held[h] # transformers[dtype[h]]

\* C25: script compilation, database opening, DDL and sink Close calls
\* never run while a write lock is held, so no lookup and no Manager.Store
\* waits for a lock behind I/O of a reload, a removal or a shutdown.
C25_NoIoInWriteSection ==
    /\ lat \in IoPositions => lheld = "none"
    /\ Blocked # {} => lat \notin IoPositions

\* C26: for the non-JSON payload hum=65,id=h3 the humidity script's
\* transform takes its non-JSON branch and returns a record with humidity
\* 65 and device_name "h3".
C26_KeyValueFallback ==
    (/\ jresult # NoScriptOut
     /\ jpayload = Payload("kv", 65, Undefined, "h3", Absent))
       => /\ jresult.kind = "mapping"
          /\ jresult.branch = "keyvalue"
          /\ jresult.humidity = 65
          /\ jresult.device_name = "h3"

\* C27: whenever, after a write, the byte count is >= max_size * 1 MiB,
\* the current file is renamed to a timestamped backup and the count is
\* reset to 0; after every rotation at most max_backups backups exist; and
\* no earlier backup is overwritten by the rename.
C27_LogRotation ==
    /\ lastWrite # NoWrite =>
          /\ lastWrite.rotated <=> lastWrite.total >= maxSize
          /\ lastWrite.rotated => currentSize = 0
    /\ rotations > 0 => Cardinality(backupFiles) <= maxBackups
    /\ overwritten = {}

IsPrefix(s, t) == Len(s) <= Len(t) /\ \A i \in 1..Len(s) : s[i] = t[i]

\* C28: while a Manager.Store call is in progress no sink is closed and the
\* sink sequence is not modified, whatever AddBackend, RemoveBackendByType
\* and Close calls are made meanwhile; the sinks a Manager.Store has called
\* are, in order, the first sinks of the one sequence it iterates over.
C28_StoreExcludesWriters ==
    [][ \A h \in Handlers :
          /\ lrd[h] = "storing" =>
                (backends' = backends /\ closed' = closed)
          /\ lrd'[h] = "storing" =>
                IsPrefix(CallIds(calls'[h]), SinkIds(backends')) ]_vars

C28_Witness ==
    \E h \in Handlers :
        /\ lrd[h] = "storing"
        /\ Len(calls[h]) >= 1
        /\ ~StoreLoopDone(calls[h], backends)
        /\ lat = "lock"
        /\ lop \in {"remove", "add", "close"}

\* C29: no sink's Store is invoked after that sink's Close was invoked,
\* also for a message callback that is still running when Manager.Close
\* runs at shutdown.
C29_NoStoreAfterClose ==
    [][ \A h \in Handlers :
          Len(calls'[h]) > Len(calls[h])
              => Last(calls'[h]).sink \notin closed ]_vars

\* C30: in a reload with database storage enabled the installed sink of the
\* configured type is removed and closed before the new sink's bootstrap is
\* attempted; if the bootstrap fails the old sink is not restored and no
\* sink of that type is installed; and a record dispatched between the
\* removal and a successful AddBackend reaches no database sink.
C30_RemoveBeforeBootstrap ==
    [][ /\ wpc' = "dbNew" =>
              /\ WithTag(backends', snapshot'.Database.Type) = {}
              /\ \A i \in WithTag(backends, snapshot.Database.Type) :
                    SinkId(backends[i]) \in closed'
        /\ (wpc = "dbNew" /\ wpc' = "idle") =>
              /\ backends' = backends
              /\ WithTag(backends', snapshot.Database.Type) = {}
        /\ wpc \in {"dbNew", "dbAdd"} =>
              \A h \in Handlers :
                  Len(calls'[h]) > Len(calls[h]) =>
                      Last(calls'[h]).sink[1] \notin {"mysql", "postgresql"}
      ]_vars

\* C31: once the configuration file is no longer written, the reload
\* callback has been invoked with the content the last write left in the
\* file (a content that parses), and this stays so.
C31_LastWriteApplied ==
    <>[](fileContent \notin {Unwritten, Unparsable} => snapshot = fileContent)

\* C32: every entry a logger writes reaches what its configuration says,
\* before and after any number of rotations: the log file only for a
\* logger created with console = false, stdout and the log file for one
\* created with console = true.
C32_RotationKeepsOutput ==
    lastWrite # NoWrite =>
        lastWrite.to = IF logConsole THEN {"stdout", "file"} ELSE {"file"}

====
